---- MODULE Spec2Model ----
(***************************************************************************)
(* Stokes V mosaicking of circ_pol_mosaic.py (class circ_pol_mosaic).      *)
(*                                                                         *)
(* One run of go() is a sequential state machine: cp_data, the beam count  *)
(* check, and then make_circpolmosaic: common PSF, the per-beam loop       *)
(* (header, reconvolution, primary beam correction, crop, weights), the    *)
(* coaddition, the header and the output file, the cleanup.                *)
(*                                                                         *)
(* Images are one-dimensional rows of Pix pixels.  A pixel value is a      *)
(* rational <<n, d>> in lowest terms with d > 0; <<0, 0>> is NaN.          *)
(* Strings that the code transforms (OBJECT) are sequences of ASCII codes. *)
(***************************************************************************)
EXTENDS Integers, Sequences, FiniteSets, TLC

VARIABLES
    pc,           \* position in go() / make_circpolmosaic()
    beams,        \* the accepted beams (images, pbimages of get_circfiles)
    pbclip,       \* self.circ_pbclip
    fixed_fwhm,   \* self.circ_mode_fixed_fwhm: <<>> is '', <<v>> is the number v
    tmpfiles,     \* temporary files on disk
    err,          \* the exception that ended the run, "none" otherwise
    errAt,        \* the position at which it was raised
    common_psf,   \* local common_psf ("unbound" before an assignment)
    i,            \* index of the beam the for loop is at
    freqs,        \* local freqs
    tg,           \* local tg
    pbarray,      \* local pbarray of the current beam
    img_corr,     \* content of the file img_corr of the current beam
    cutout,       \* cutout returned by fm.fits_crop for the current beam
    wg_arr,       \* local wg_arr of the current beam
    corrimages,   \* local corrimages
    pbweights,    \* local pbweights
    array,        \* local array (result of reproject_and_coadd)
    outfiles      \* the mosaic files written, in order: [name, freq, data]

vars == <<pc, beams, pbclip, fixed_fwhm, tmpfiles, err, errAt, common_psf, i,
          freqs, tg, pbarray, img_corr, cutout, wg_arr, corrimages, pbweights,
          array, outfiles>>

----------------------------------------------------------------------------
(* Bounds of the model *)

\* largest number of accepted beams
MaxBeams == 3
\* pixels of one beam image (one row)
NPix == 3

\* fewest beams go() passes on to make_circpolmosaic
MinBeams == 2

Pix == 1..NPix

----------------------------------------------------------------------------
(* Arithmetic on pixel values *)

NaN == <<0, 0>>

IsNaN(x) == x[2] = 0

Abs(n) == IF n < 0 THEN -n ELSE n

RECURSIVE GCD(_, _)
GCD(a, b) == IF b = 0 THEN a ELSE GCD(b, a % b)

\* n/d in lowest terms with a positive denominator; x/0 is NaN
Norm(n, d) ==
    IF d = 0 THEN NaN
    ELSE LET g == GCD(Abs(n), Abs(d))
             s == IF d < 0 THEN -1 ELSE 1
         IN  <<(s * n) \div g, (s * d) \div g>>

RAdd(x, y) ==
    IF IsNaN(x) \/ IsNaN(y) THEN NaN
    ELSE Norm(x[1] * y[2] + y[1] * x[2], x[2] * y[2])

RMul(x, y) ==
    IF IsNaN(x) \/ IsNaN(y) THEN NaN
    ELSE Norm(x[1] * y[1], x[2] * y[2])

RDiv(x, y) ==
    IF IsNaN(x) \/ IsNaN(y) THEN NaN
    ELSE Norm(x[1] * y[2], x[2] * y[1])

\* x < y as numpy compares: any comparison with NaN is False
RLess(x, y) ==
    IF IsNaN(x) \/ IsNaN(y) THEN FALSE
    ELSE x[1] * y[2] < y[1] * x[2]

RLeq(x, y) ==
    IF IsNaN(x) \/ IsNaN(y) THEN FALSE
    ELSE x[1] * y[2] <= y[1] * x[2]

Zero == <<0, 1>>
One == <<1, 1>>

----------------------------------------------------------------------------
(* Inputs *)

\* primary beam responses: 0, 0.5 and 1
PbValues == {<<0, 1>>, <<1, 2>>, <<1, 1>>}

\* settings of circ_pbclip: 0.5 and 1
ClipValues == {<<1, 2>>, <<1, 1>>}

\* settings of circ_mode_fixed_fwhm: '', -1.0, 0.0, 1.0
FwhmSettings == {<<>>, <<-1>>, <<0>>, <<1>>}

\* CRVAL3 of an image
Freqs == {1, 2}

\* OBJECT of an image: "m31", "M31", "m33"
Objects == {<<109, 51, 49>>, <<77, 51, 49>>, <<109, 51, 51>>}

\* offsets, in pixels, between the grid of a primary beam map and of its image
Shifts == {0, 1}

\* a reconvolved image: pixel p holds the value p
RampImage == [p \in Pix |-> <<p, 1>>]

\* a primary beam map that is at its peak everywhere
FlatPb == [p \in Pix |-> One]

\* Beam k of the run points k - 1 pixels to the right of beam 1.
\*   freq, object: CRVAL3 and OBJECT of the image header
\*   reconv:       the pixels fm.fits_reconvolve_psf writes for the image
\*   pb, shift:    the pixels of the primary beam map and the offset of its grid
Beam(k, f, o, pb, sh) ==
    [freq |-> f, object |-> o, reconv |-> RampImage, pb |-> pb, shift |-> sh,
     sky |-> k - 1]

----------------------------------------------------------------------------
(* go() *)

\* the mutant of CountError: the check for one beam is missing
CountErrorNoSingle(n) ==
    IF n = 0 THEN "ZeroBeamError" ELSE "none"

\* lines 43-48: the exception go() raises for n accepted beams
CountError(n) ==
    IF n = 0 THEN "ZeroBeamError"
    ELSE IF n = 1 THEN "OneBeamError"
    ELSE "none"

\* utils.copy_circimages and utils.copy_circbeams (called by cp_data)
StagedFiles(n) == {<<"image", k>> : k \in 1..n} \cup {<<"beam", k>> : k \in 1..n}

----------------------------------------------------------------------------
(* make_circpolmosaic(): common PSF and header *)

Unbound == [format |-> "unbound", fwhm |-> 0]

\* lines 65-68: the value of local common_psf after the if / elif
ResolvePSF(fwhm) ==
    IF fwhm = <<>> THEN [format |-> "fits", fwhm |-> 0]
    ELSE IF fwhm[1] >= 0 THEN [format |-> "pol-fixed", fwhm |-> fwhm[1]]
    ELSE Unbound

\* the mutant of AppendFreq: only the first frequency is kept
AppendFreqFirstOnly(fs, hdr) ==
    IF fs = <<>> THEN <<hdr.freq>> ELSE fs

\* line 80: freqs.append(imheader['CRVAl3'])
AppendFreq(fs, hdr) == Append(fs, hdr.freq)

\* the mutant of ReadTarget: the first OBJECT is kept
ReadTargetFirst(old, hdr) ==
    IF old = <<>> THEN hdr.object ELSE old

\* line 81: tg = imheader['OBJECT']
ReadTarget(old, hdr) == hdr.object

RECURSIVE SumSeq(_)
SumSeq(s) == IF s = <<>> THEN 0 ELSE Head(s) + SumSeq(Tail(s))

\* np.nanmean of a list of numbers (header values are never NaN)
NanMean(fs) == Norm(SumSeq(fs), Len(fs))

\* str.upper() of one ASCII character
UpperChar(c) == IF c >= 97 /\ c <= 122 THEN c - 32 ELSE c

\* str.upper()
Upper(s) == [k \in DOMAIN s |-> UpperChar(s[k])]

\* line 141: str(tg).upper() + '.fits'
MosaicName(t) == Upper(t) \o <<46, 102, 105, 116, 115>>

----------------------------------------------------------------------------
(* make_circpolmosaic(): primary beam correction, crop and weights *)

\* reproject_interp of a map whose grid lies sh pixels off the target grid:
\* pixels that fall outside the map are NaN
ReprojectInterp(arr, sh) ==
    [p \in Pix |-> IF p + sh \in Pix THEN arr[p + sh] ELSE NaN]

\* lines 98-101: the map is reprojected only when its header differs from the
\* header of the image
AlignPb(b) ==
    IF b.shift # 0 THEN ReprojectInterp(b.pb, b.shift) ELSE b.pb

\* the mutant of ClipPb: the comparison is <= instead of <
ClipPbInclusive(arr, clip) ==
    [p \in Pix |-> IF RLeq(arr[p], clip) THEN NaN ELSE arr[p]]

\* line 103: pbarray[pbarray < self.circ_pbclip] = np.nan
ClipPb(arr, clip) ==
    [p \in Pix |-> IF RLess(arr[p], clip) THEN NaN ELSE arr[p]]

\* line 108: fm.fits_operation(tmpimg, pbarray, operation='/')
FitsOperationDiv(img, pb) ==
    [p \in Pix |-> RDiv(img[p], pb[p])]

ValidPix(arr) == {p \in Pix : ~IsNaN(arr[p])}

SetMin(S) == CHOOSE x \in S : \A y \in S : x <= y
SetMax(S) == CHOOSE x \in S : \A y \in S : x >= y

NoCutout == [pos |-> 0, shape |-> 0]

\* fm.fits_crop: the cutout of the bounding box of the valid pixels.  As in
\* astropy's Cutout2D the cutout is described by its centre and its shape; pos
\* is twice the centre, so that it stays an integer.
CropBox(arr) ==
    LET v == ValidPix(arr)
    IN  [pos |-> SetMin(v) + SetMax(v), shape |-> SetMax(v) - SetMin(v) + 1]

\* first pixel of the cutout with centre pos / 2 and the given shape
CutoutStart(pos, shape) == (pos - (shape - 1)) \div 2

\* astropy.nddata.Cutout2D(arr, position, shape).data
Cutout2D(arr, pos, shape) ==
    [k \in 1..shape |-> arr[CutoutStart(pos, shape) + k - 1]]

\* line 117: wg_arr[np.isnan(wg_arr)] = 0
NanToZero(arr) == [p \in Pix |-> IF IsNaN(arr[p]) THEN Zero ELSE arr[p]]

RECURSIVE MaxOver(_, _)
MaxOver(arr, S) ==
    IF S = {} THEN NaN
    ELSE LET p == CHOOSE q \in S : TRUE
             m == MaxOver(arr, S \ {p})
         IN  IF IsNaN(m) \/ RLess(m, arr[p]) THEN arr[p] ELSE m

\* np.nanmax
NanMax(arr) == MaxOver(arr, ValidPix(arr))

\* the mutant of Square: the weights are linear in the primary beam
SquareNot(arr) == arr

\* line 118: wg_arr ** 2
Square(arr) == [p \in Pix |-> RMul(arr[p], arr[p])]

\* the mutant of Normalize: the weights are not normalised
NormalizeNot(sq) == sq

\* line 118: wg_arr ** 2 / np.nanmax(wg_arr ** 2), given wg_arr ** 2
Normalize(sq) ==
    LET m == NanMax(sq)
    IN  [p \in Pix |-> RDiv(sq[p], m)]

\* lines 116-118: the weight map of a clipped primary beam map
WeightMap(pb) == Normalize(Square(NanToZero(pb)))

\* the mutant of WeightCutout: the weights are cut at the start of the row
WeightCutoutAtStart(wg, cut) == Cutout2D(wg, cut.shape + 1, cut.shape)

\* line 119: Cutout2D(wg_arr, cutout.input_position_original, cutout.shape)
WeightCutout(wg, cut) == Cutout2D(wg, cut.pos, cut.shape)

----------------------------------------------------------------------------
(* make_circpolmosaic(): coaddition *)

\* the cropped image of beam k as the compositor reads it from its file: the
\* pixels and, from the header, the sky position of the first pixel
CroppedImage(k, b, corr, cut) ==
    [beam |-> k, pos |-> cut.pos, shape |-> cut.shape,
     origin |-> b.sky + CutoutStart(cut.pos, cut.shape),
     data |-> Cutout2D(corr, cut.pos, cut.shape)]

\* the entry of pbweights for beam k: a bare array (beam, pos and shape record
\* where it was cut from and are not read by the compositor)
CroppedWeight(k, wg, cut) ==
    [beam |-> k, pos |-> cut.pos, shape |-> cut.shape,
     data |-> WeightCutout(wg, cut)]

\* find_optimal_celestial_wcs: the sky pixels spanned by the images
OptimalGrid(ims) ==
    IF ims = <<>> THEN {}
    ELSE SetMin({ims[k].origin : k \in DOMAIN ims}) ..
         SetMax({ims[k].origin + ims[k].shape - 1 : k \in DOMAIN ims})

\* index of sky pixel s in the image
PixelAt(im, s) == s - im.origin + 1

\* footprint of reproject_interp: the sky pixels at which the image has a value
Covers(im, s) ==
    /\ PixelAt(im, s) \in 1..im.shape
    /\ ~IsNaN(im.data[PixelAt(im, s)])

RECURSIVE SumWeights(_, _, _, _)
SumWeights(ims, wgs, s, k) ==
    IF k = 0 THEN Zero
    ELSE LET rest == SumWeights(ims, wgs, s, k - 1)
         IN  IF Covers(ims[k], s)
             THEN RAdd(rest, wgs[k].data[PixelAt(ims[k], s)])
             ELSE rest

RECURSIVE SumWeighted(_, _, _, _)
SumWeighted(ims, wgs, s, k) ==
    IF k = 0 THEN Zero
    ELSE LET rest == SumWeighted(ims, wgs, s, k - 1)
             q == PixelAt(ims[k], s)
         IN  IF Covers(ims[k], s)
             THEN RAdd(rest, RMul(ims[k].data[q], wgs[k].data[q]))
             ELSE rest

\* reproject_and_coadd with input_weights: the weighted mean of the images at
\* every pixel of the grid, NaN where the weights sum to zero
ReprojectAndCoadd(ims, wgs) ==
    [s \in OptimalGrid(ims) |->
        RDiv(SumWeighted(ims, wgs, s, Len(ims)), SumWeights(ims, wgs, s, Len(ims)))]

\* reproject_and_coadd refuses weights whose shape differs from their image
ShapesMatch(ims, wgs) ==
    /\ Len(ims) = Len(wgs)
    /\ \A k \in DOMAIN ims : Len(wgs[k].data) = Len(ims[k].data)

----------------------------------------------------------------------------
(* make_circpolmosaic() as a function of the list of beams *)

RECURSIVE LoopFreqs(_, _)
\* lines 73-80: freqs after the first n beams of bs
LoopFreqs(bs, n) ==
    IF n = 0 THEN <<>> ELSE AppendFreq(LoopFreqs(bs, n - 1), bs[n])

RECURSIVE LoopTarget(_, _)
\* lines 75-81: tg after the first n beams of bs
LoopTarget(bs, n) ==
    IF n = 0 THEN <<>> ELSE ReadTarget(LoopTarget(bs, n - 1), bs[n])

\* line 133: the FREQ entry of the header for the beams bs
HeaderFreq(bs) == NanMean(LoopFreqs(bs, Len(bs)))

\* line 141: the name of the output file for the beams bs
OutputName(bs) == MosaicName(LoopTarget(bs, Len(bs)))

\* the beams bs in the order perm
Reorder(bs, perm) == [k \in DOMAIN bs |-> bs[perm[k]]]

----------------------------------------------------------------------------
(* The run *)

Blank == [p \in Pix |-> NaN]

\* the state on entry to go()
Entry ==
    /\ pc = "start"
    /\ tmpfiles = {}
    /\ err = "none"
    /\ errAt = "none"
    /\ common_psf = Unbound
    /\ i = 0
    /\ freqs = <<>>
    /\ tg = <<>>
    /\ pbarray = Blank
    /\ img_corr = Blank
    /\ cutout = NoCutout
    /\ wg_arr = Blank
    /\ corrimages = <<>>
    /\ pbweights = <<>>
    /\ array = <<>>
    /\ outfiles = <<>>

\* the mutant of AfterException: the error is caught and the beams corrected
\* so far are mosaicked
AfterExceptionCaught(at) == "coadd"

\* lines 75-120 hold no try: an exception of a step leaves make_circpolmosaic
\* and go()
AfterException(at) == "raised"

\* the exception a failing step raises
ErrorOf(at) ==
    CASE at = "header" -> "KeyError"
      [] at = "reconv" -> "ReconvolveError"
      [] at = "pbcorr" -> "ReprojectError"
      [] at = "crop" -> "CropError"
      [] OTHER -> "Error"

\* the temporary files the primary beam correction of beam k writes
\* (lines 86-108)
PbCorrFiles(k) ==
    {<<"reconv_tmp_tmp", k>>, <<"beam_tmp", k>>, <<"beam_repr_tmp", k>>,
     <<"reconv_tmp_pbcorr", k>>}

\* line 41: self.cp_data()
CpData ==
    /\ pc = "start"
    /\ tmpfiles' = StagedFiles(Len(beams))
    /\ pc' = "validate"
    /\ UNCHANGED <<beams, pbclip, fixed_fwhm, err, errAt, common_psf, i, freqs,
                   tg, pbarray, img_corr, cutout, wg_arr, corrimages, pbweights,
                   array, outfiles>>

\* lines 42-48: the beam count check
Validate ==
    /\ pc = "validate"
    /\ LET e == CountError(Len(beams))
       IN  IF e # "none"
           THEN /\ err' = e
                /\ errAt' = "validate"
                /\ pc' = "raised"
           ELSE /\ pc' = "psf"
                /\ UNCHANGED <<err, errAt>>
    /\ UNCHANGED <<beams, pbclip, fixed_fwhm, tmpfiles, common_psf, i, freqs, tg,
                   pbarray, img_corr, cutout, wg_arr, corrimages, pbweights,
                   array, outfiles>>

\* lines 64-75: the common PSF, the empty lists, the start of the loop
GetCommonPsf ==
    /\ pc = "psf"
    /\ common_psf' = ResolvePSF(fixed_fwhm)
    /\ i' = 1
    /\ pc' = IF Len(beams) >= 1 THEN "header" ELSE "coadd"
    /\ UNCHANGED <<beams, pbclip, fixed_fwhm, tmpfiles, err, errAt, freqs, tg,
                   pbarray, img_corr, cutout, wg_arr, corrimages, pbweights,
                   array, outfiles>>

\* lines 78-81: frequency and target of beam i
ReadHeader ==
    /\ pc = "header"
    /\ freqs' = AppendFreq(freqs, beams[i])
    /\ tg' = ReadTarget(tg, beams[i])
    /\ pc' = "reconv"
    /\ UNCHANGED <<beams, pbclip, fixed_fwhm, tmpfiles, err, errAt, common_psf,
                   i, pbarray, img_corr, cutout, wg_arr, corrimages, pbweights,
                   array, outfiles>>

\* lines 83-84: reconvolution of beam i; reading an unbound common_psf raises
Reconvolve ==
    /\ pc = "reconv"
    /\ IF common_psf = Unbound
       THEN /\ err' = "UnboundLocalError"
            /\ errAt' = "reconv"
            /\ pc' = "raised"
            /\ UNCHANGED tmpfiles
       ELSE /\ tmpfiles' = tmpfiles \cup {<<"reconv_tmp", i>>}
            /\ pc' = "pbcorr"
            /\ UNCHANGED <<err, errAt>>
    /\ UNCHANGED <<beams, pbclip, fixed_fwhm, common_psf, i, freqs, tg, pbarray,
                   img_corr, cutout, wg_arr, corrimages, pbweights, array,
                   outfiles>>

\* lines 86-108: alignment and clip of the primary beam map, division
PbCorrect ==
    /\ pc = "pbcorr"
    /\ pbarray' = ClipPb(AlignPb(beams[i]), pbclip)
    /\ img_corr' = FitsOperationDiv(beams[i].reconv, pbarray')
    /\ tmpfiles' = tmpfiles \cup PbCorrFiles(i)
    /\ pc' = "crop"
    /\ UNCHANGED <<beams, pbclip, fixed_fwhm, err, errAt, common_psf, i, freqs,
                   tg, cutout, wg_arr, corrimages, pbweights, array, outfiles>>

\* lines 110-113: crop of the corrected image; an image without a valid pixel
\* has no bounding box
Crop ==
    /\ pc = "crop"
    /\ IF ValidPix(img_corr) = {}
       THEN /\ err' = ErrorOf("crop")
            /\ errAt' = "crop"
            /\ pc' = "raised"
            /\ UNCHANGED <<cutout, corrimages, tmpfiles>>
       ELSE /\ cutout' = CropBox(img_corr)
            /\ corrimages' =
                   Append(corrimages, CroppedImage(i, beams[i], img_corr, cutout'))
            /\ tmpfiles' = tmpfiles \cup {<<"mos", i>>}
            /\ pc' = "weights"
            /\ UNCHANGED <<err, errAt>>
    /\ UNCHANGED <<beams, pbclip, fixed_fwhm, common_psf, i, freqs, tg, pbarray,
                   img_corr, wg_arr, pbweights, array, outfiles>>

\* lines 116-120 and the end of the loop body.  wg_arr is first an alias of
\* pbarray, so line 117 zeroes the NaNs of pbarray as well.
Weights ==
    /\ pc = "weights"
    /\ wg_arr' = WeightMap(pbarray)
    /\ pbarray' = NanToZero(pbarray)
    /\ pbweights' = Append(pbweights, CroppedWeight(i, wg_arr', cutout))
    /\ IF i < Len(beams)
       THEN /\ i' = i + 1
            /\ pc' = "header"
       ELSE /\ i' = i
            /\ pc' = "coadd"
    /\ UNCHANGED <<beams, pbclip, fixed_fwhm, tmpfiles, err, errAt, common_psf,
                   freqs, tg, img_corr, cutout, corrimages, array, outfiles>>

\* lines 124-128: output grid and coaddition
Coadd ==
    /\ pc = "coadd"
    /\ IF ShapesMatch(corrimages, pbweights)
       THEN /\ array' = ReprojectAndCoadd(corrimages, pbweights)
            /\ pc' = "write"
            /\ UNCHANGED <<err, errAt>>
       ELSE /\ err' = "ValueError"
            /\ errAt' = "coadd"
            /\ pc' = "raised"
            /\ UNCHANGED array
    /\ UNCHANGED <<beams, pbclip, fixed_fwhm, tmpfiles, common_psf, i, freqs, tg,
                   pbarray, img_corr, cutout, wg_arr, corrimages, pbweights,
                   outfiles>>

\* lines 131-141: the header and the output file
WriteMosaic ==
    /\ pc = "write"
    /\ outfiles' = Append(outfiles, [name |-> MosaicName(tg),
                                     freq |-> NanMean(freqs),
                                     data |-> array])
    /\ pc' = "clean"
    /\ UNCHANGED <<beams, pbclip, fixed_fwhm, tmpfiles, err, errAt, common_psf,
                   i, freqs, tg, pbarray, img_corr, cutout, wg_arr, corrimages,
                   pbweights, array>>

\* line 143: utils.clean_circmosaic_tmp_data(self)
Clean ==
    /\ pc = "clean"
    /\ tmpfiles' = {}
    /\ pc' = "done"
    /\ UNCHANGED <<beams, pbclip, fixed_fwhm, err, errAt, common_psf, i, freqs,
                   tg, pbarray, img_corr, cutout, wg_arr, corrimages, pbweights,
                   array, outfiles>>

\* a step of the loop body fails: a header field is missing, the
\* reconvolution, the reprojection or the crop raises
Raise ==
    /\ pc \in {"header", "reconv", "pbcorr", "crop"}
    /\ err' = ErrorOf(pc)
    /\ errAt' = pc
    /\ pc' = AfterException(pc)
    /\ UNCHANGED <<beams, pbclip, fixed_fwhm, tmpfiles, common_psf, i, freqs, tg,
                   pbarray, img_corr, cutout, wg_arr, corrimages, pbweights,
                   array, outfiles>>

----------------------------------------------------------------------------
(* Specifications *)

\* any number of beams, any headers, any setting of the fixed FWHM; every
\* primary beam map is flat and aligned
Init ==
    /\ Entry
    /\ pbclip = <<1, 2>>
    /\ fixed_fwhm \in FwhmSettings
    /\ \E n \in 0..MaxBeams :
          \E h \in [1..n -> Freqs \X Objects] :
              beams = [k \in 1..n |-> Beam(k, h[k][1], h[k][2], FlatPb, 0)]

Next ==
    \/ CpData
    \/ Validate
    \/ GetCommonPsf
    \/ ReadHeader
    \/ Reconvolve
    \/ PbCorrect
    \/ Crop
    \/ Weights
    \/ Coadd
    \/ WriteMosaic
    \/ Clean
    \/ Raise

Spec == Init /\ [][Next]_vars

\* the pixel pipeline: two beams with any primary beam maps, any alignment and
\* any clip level; no step fails for a reason outside the pixels
InitPix ==
    /\ Entry
    /\ pbclip \in ClipValues
    /\ fixed_fwhm = <<>>
    /\ \E m \in [1..MinBeams -> [Pix -> PbValues] \X Shifts] :
          beams = [k \in 1..MinBeams |->
                      Beam(k, 1, <<109, 51, 49>>, m[k][1], m[k][2])]

NextPix ==
    \/ CpData
    \/ Validate
    \/ GetCommonPsf
    \/ ReadHeader
    \/ Reconvolve
    \/ PbCorrect
    \/ Crop
    \/ Weights
    \/ Coadd
    \/ WriteMosaic
    \/ Clean

SpecPix == InitPix /\ [][NextPix]_vars

----------------------------------------------------------------------------
(* Properties: the inputs of a run, read independently of the run *)

NBeams == Len(beams)

\* the run has written its mosaic
Written == pc \in {"clean", "done"}

\* the weights of a beam have just been appended (wg_arr, pbweights and
\* corrimages change nowhere else)
AfterWeights == pc \in {"header", "coadd"} /\ Len(pbweights) >= 1

\* the compositor has just run (array changes nowhere else)
Coadded == pc = "write"

RECURSIVE RSum(_, _)
\* the sum of f over the set S
RSum(f, S) ==
    IF S = {} THEN Zero
    ELSE LET x == CHOOSE y \in S : TRUE
         IN  RAdd(f[x], RSum(f, S \ {x}))

RECURSIVE ISum(_, _)
ISum(f, S) ==
    IF S = {} THEN 0
    ELSE LET x == CHOOSE y \in S : TRUE
         IN  f[x] + ISum(f, S \ {x})

\* beam k has a primary beam value at pixel q and it is not below the clip level
Kept(k, q) ==
    /\ q \in Pix
    /\ ~IsNaN(AlignPb(beams[k])[q])
    /\ ~RLess(AlignPb(beams[k])[q], pbclip)

\* the aligned primary beam map of beam k is below the clip level at pixel q
Below(k, q) == q \in Pix /\ RLess(AlignPb(beams[k])[q], pbclip)

KeptPix(k) == {q \in Pix : Kept(k, q)}

\* the largest kept primary beam value of beam k
Peak(k) ==
    LET a == AlignPb(beams[k])
    IN  a[CHOOSE q \in KeptPix(k) : \A r \in KeptPix(k) : RLeq(a[r], a[q])]

\* the weight (pb / peak)^2 of pixel q of beam k
ExpectedWeight(k, q) ==
    IF Kept(k, q)
    THEN LET r == RDiv(AlignPb(beams[k])[q], Peak(k)) IN RMul(r, r)
    ELSE Zero

\* the primary beam corrected value of pixel q of beam k
ExpectedValue(k, q) == RDiv(beams[k].reconv[q], AlignPb(beams[k])[q])

\* the beams that contribute to sky pixel s
Contributors(s) == {k \in 1..NBeams : Kept(k, s - beams[k].sky)}

\* the weighted average at sky pixel s
ExpectedPixel(s) ==
    LET K == Contributors(s)
        w == [k \in K |-> ExpectedWeight(k, s - beams[k].sky)]
        v == [k \in K |-> RMul(ExpectedValue(k, s - beams[k].sky), w[k])]
    IN  IF K = {} THEN NaN ELSE RDiv(RSum(v, K), RSum(w, K))

\* the sky pixels between the first and the last kept pixel of any beam
ExpectedGrid ==
    LET S == {beams[k].sky + q : k \in 1..NBeams, q \in Pix}
        T == {s \in S : Contributors(s) # {}}
    IN  IF T = {} THEN {} ELSE SetMin(T)..SetMax(T)

----------------------------------------------------------------------------
(* C1: go() decides by the number n of accepted beams alone: n = 0 raises
   ZeroBeamError and n = 1 raises OneBeamError, in both cases before
   make_circpolmosaic has touched any beam and without an output file; for
   n >= 2 no count error is raised and make_circpolmosaic is run. *)
NothingProcessed ==
    /\ i = 0
    /\ common_psf = Unbound
    /\ freqs = <<>>
    /\ corrimages = <<>>
    /\ pbweights = <<>>
    /\ array = <<>>
    /\ outfiles = <<>>

C1_CountDecides ==
    pc \notin {"start", "validate"} =>
        /\ NBeams = 0 => pc = "raised" /\ err = "ZeroBeamError" /\ NothingProcessed
        /\ NBeams = 1 => pc = "raised" /\ err = "OneBeamError" /\ NothingProcessed
        /\ NBeams >= 2 =>
              /\ err \notin {"ZeroBeamError", "OneBeamError"}
              /\ errAt # "validate"
              /\ pc = "psf" \/ i >= 1

C1_Witness ==
    /\ pc = "raised"
    /\ NBeams = 1
    /\ err = "OneBeamError"

(* C2: every pixel of the coadded array is the weighted average
   sum(image * weight) / sum(weight) over the beams whose footprint covers
   it, with the weights (pb / peak)^2 and the images reconvolved / pb; a
   pixel without weight is NaN, in particular a pixel at which every beam is
   below the clip level. *)
C2_WeightedAverage ==
    Coadded =>
        /\ DOMAIN array = ExpectedGrid
        /\ \A s \in DOMAIN array :
              /\ array[s] = ExpectedPixel(s)
              /\ (\A k \in 1..NBeams :
                     s - beams[k].sky \in Pix => ~Kept(k, s - beams[k].sky))
                  => IsNaN(array[s])

\* a pixel averaged over two beams of different weight, and a pixel inside
\* the mosaic that is clipped in every beam
C2_Witness ==
    /\ pc = "done"
    /\ \E s \in DOMAIN array :
          /\ Contributors(s) = {1, 2}
          /\ ExpectedWeight(1, s - beams[1].sky) # ExpectedWeight(2, s - beams[2].sky)
          /\ ~IsNaN(array[s])
    /\ \E s \in DOMAIN array :
          /\ \A k \in 1..NBeams : Below(k, s - beams[k].sky)
          /\ IsNaN(array[s])


(* C3: at every pixel at which the aligned primary beam map of a beam is
   strictly below the clip level, the corrected image of the beam is NaN and
   its weight map is 0; a pixel at or above the clip level keeps its primary
   beam value, its corrected value and a positive weight. *)
C3_ClipExcludes ==
    /\ pc = "crop" =>
          \A p \in Pix :
              /\ Below(i, p) => IsNaN(pbarray[p]) /\ IsNaN(img_corr[p])
              /\ Kept(i, p) =>
                    /\ pbarray[p] = AlignPb(beams[i])[p]
                    /\ img_corr[p] = ExpectedValue(i, p)
                    /\ ~IsNaN(img_corr[p])
    /\ AfterWeights =>
          \A p \in Pix :
              /\ Below(Len(pbweights), p) => wg_arr[p] = Zero
              /\ Kept(Len(pbweights), p) => RLess(Zero, wg_arr[p])
    /\ AfterWeights =>
        \A k \in DOMAIN pbweights :
          \A j \in 1..pbweights[k].shape :
              LET q == CutoutStart(corrimages[k].pos, corrimages[k].shape) + j - 1
              IN  /\ Below(k, q) =>
                        /\ pbweights[k].data[j] = Zero
                        /\ IsNaN(corrimages[k].data[j])
                  /\ Kept(k, q) =>
                        /\ RLess(Zero, pbweights[k].data[j])
                        /\ ~IsNaN(corrimages[k].data[j])

\* a pixel below the clip level inside the cutout of a beam, and a pixel
\* exactly at the clip level
C3_Witness ==
    /\ pc = "done"
    /\ \E k \in DOMAIN pbweights :
          /\ \E j \in 1..pbweights[k].shape :
                /\ Below(k, CutoutStart(pbweights[k].pos, pbweights[k].shape) + j - 1)
                /\ pbweights[k].data[j] = Zero
          /\ \E p \in Pix : Kept(k, p) /\ AlignPb(beams[k])[p] = pbclip

(* C4: every weight handed to the compositor lies in [0, 1] and the largest
   weight of every beam, within its cutout, is 1. *)
C4_WeightsNormalised ==
    /\ AfterWeights =>
        \A k \in DOMAIN pbweights :
          /\ \A j \in DOMAIN pbweights[k].data :
                /\ RLeq(Zero, pbweights[k].data[j])
                /\ RLeq(pbweights[k].data[j], One)
          /\ \E j \in DOMAIN pbweights[k].data : pbweights[k].data[j] = One
    /\ AfterWeights =>
          /\ \A p \in Pix : RLeq(Zero, wg_arr[p]) /\ RLeq(wg_arr[p], One)
          /\ \E p \in Pix : wg_arr[p] = One

\* a beam whose peak response is 0.5 and a weight strictly between 0 and 1
C4_Witness ==
    /\ pc = "done"
    /\ \E k \in DOMAIN pbweights : Peak(k) = <<1, 2>>
    /\ \E k \in DOMAIN pbweights :
          \E j \in DOMAIN pbweights[k].data :
              RLess(Zero, pbweights[k].data[j]) /\ RLess(pbweights[k].data[j], One)

(* C5: when the compositor starts, corrimages and pbweights both have one
   entry per input beam, and entry k of each comes from beam k through the
   same cutout: same shape, and pixel j of both is the same pixel of the
   frame of beam k. *)
C5_PairedLists ==
    /\ Len(pbweights) <= Len(corrimages)
    /\ Len(corrimages) <= Len(pbweights) + 1
    /\ pc = "coadd" =>
          /\ Len(corrimages) = NBeams
          /\ Len(pbweights) = NBeams
          /\ \A k \in 1..NBeams :
                /\ corrimages[k].beam = k
                /\ pbweights[k].beam = k
                /\ pbweights[k].pos = corrimages[k].pos
                /\ pbweights[k].shape = corrimages[k].shape
                /\ Len(corrimages[k].data) = corrimages[k].shape
                /\ Len(pbweights[k].data) = corrimages[k].shape
                /\ \A j \in 1..corrimages[k].shape :
                      LET q == CutoutStart(corrimages[k].pos, corrimages[k].shape)
                                   + j - 1
                      IN  /\ pbweights[k].data[j] = ExpectedWeight(k, q)
                          /\ corrimages[k].data[j] =
                                 IF Kept(k, q) THEN ExpectedValue(k, q) ELSE NaN

\* two beams with different cutouts, one of which does not start at pixel 1
C5_Witness ==
    /\ pc = "coadd"
    /\ corrimages[1].shape # corrimages[2].shape
    /\ corrimages[1].shape < NPix
    /\ CutoutStart(corrimages[1].pos, corrimages[1].shape) > 1

(* C6: every temporary file of a run is deleted when the run exits, whether
   it completes or raises. *)
C6_TmpReleasedOnExit ==
    pc \in {"done", "raised"} => tmpfiles = {}

(* C7: when a step of the loop body fails for a beam, the run ends there: no
   later beam is processed, the compositor does not run and no mosaic file
   is written. *)
C7_FailureAborts ==
    errAt \in {"header", "reconv", "pbcorr", "crop"} =>
        /\ pc = "raised"
        /\ ~ENABLED Next
        /\ Len(freqs) <= i
        /\ Len(corrimages) < i
        /\ Len(pbweights) < i
        /\ array = <<>>
        /\ outfiles = <<>>

\* the crop of the first of several beams has failed
C7_Witness ==
    /\ pc = "raised"
    /\ errAt = "crop"
    /\ i = 1
    /\ NBeams >= 2

(* C8: the FREQ entry of the written header is the arithmetic mean of the
   frequencies of all input beams, each counted once, and is the same for
   every order of the beams. *)
C8_MeanFrequency ==
    Written =>
        /\ Len(freqs) = NBeams
        /\ outfiles[1].freq =
               Norm(ISum([k \in 1..NBeams |-> beams[k].freq], 1..NBeams), NBeams)
        /\ \A perm \in Permutations(1..NBeams) :
               HeaderFreq(Reorder(beams, perm)) = outfiles[1].freq

\* three beams, not all of one frequency, whose mean is not a whole number
C8_Witness ==
    /\ pc = "done"
    /\ NBeams = 3
    /\ beams[1].freq # beams[3].freq
    /\ outfiles[1].freq[2] = 3

(* C9: with a negative fixed FWHM the run fails when the common PSF is
   resolved, before the header of any beam is read and before any frequency
   is recorded. *)
C9_NegativeFwhmFailsAtPsf ==
    (fixed_fwhm # <<>> /\ fixed_fwhm[1] < 0 /\ NBeams >= 2) =>
        /\ freqs = <<>>
        /\ tg = <<>>
        /\ pc = "raised" => errAt = "psf"

(* C10, as amended: a successful run writes exactly one mosaic file, once,
   after all beams have been processed and coadded; its name is the
   upper-cased OBJECT of the last beam; when two beams carry OBJECT values
   that differ after upper-casing, another order of the beams gives another
   name. *)
C10_LastObjectNames ==
    /\ ~Written => outfiles = <<>>
    /\ Written =>
          /\ Len(outfiles) = 1
          /\ Len(corrimages) = NBeams
          /\ Len(pbweights) = NBeams
          /\ outfiles[1].data = array
          /\ outfiles[1].name = MosaicName(beams[NBeams].object)
          /\ (\E j, k \in 1..NBeams :
                 Upper(beams[j].object) # Upper(beams[k].object))
              => \E perm \in Permutations(1..NBeams) :
                     OutputName(Reorder(beams, perm)) # outfiles[1].name

\* the first and the last beam carry different targets
C10_Witness ==
    /\ pc = "done"
    /\ beams[1].object = <<109, 51, 49>>
    /\ beams[NBeams].object = <<109, 51, 51>>
    /\ outfiles[1].name = <<77, 51, 51, 46, 102, 105, 116, 115>>

(* C10, as stated: ... when the beams carry different OBJECT values, the
   name of the output file depends on the order of the beams. *)
C10_NameDependsOnOrder ==
    Written =>
        /\ Len(outfiles) = 1
        /\ outfiles[1].name = MosaicName(beams[NBeams].object)
        /\ (\E j, k \in 1..NBeams : beams[j].object # beams[k].object)
            => \E perm \in Permutations(1..NBeams) :
                   OutputName(Reorder(beams, perm)) # outfiles[1].name

====
